---- MODULE Spec2Model ----
(***************************************************************************)
(* Model of gantt_app.py: a single-user task list edited through a form,   *)
(* a table editor and two buttons, mirrored to tasks.json, and projected   *)
(* onto a Gantt chart.                                                     *)
(*                                                                         *)
(* Representation.                                                         *)
(*  - A calendar date is a day number 1..MaxDay.  An ISO string is a real  *)
(*    string built by iso(); a pandas Timestamp cell is the day number,    *)
(*    and the missing value pd.NaT is NaT.                                 *)
(*  - A text (name, notes) is a sequence of one-character strings so that  *)
(*    str.strip() can be computed.                                         *)
(*  - A Task is a record with the dataclass's fields; a table row is a     *)
(*    record with the DataFrame's columns (Zakonczone and Data_zakonczenia *)
(*    stand for the columns "Zakończone" and "Data zakończenia", and the   *)
(*    priority "Sredni" for "Średni").                                     *)
(***************************************************************************)
EXTENDS Integers, Sequences, FiniteSets, TLC

\* ----------------------------------------------------------------- state
VARIABLES
    tasks,      \* st.session_state.tasks
    store,      \* contents of DATA_FILE
    today,      \* date.today()
    clock,      \* datetime.now(), one tick per interaction
    last,       \* the last interaction and its outcome
    df_in,      \* reconciler harness: the edited table passed to df_to_tasks
    prev_in,    \* reconciler harness: the previous task list passed to it
    returned,   \* reconciler harness: the day of the last call and its result
    df_plot,    \* chart harness: the task list behind the right-hand pane
    chart       \* chart harness: the filters used and the bars drawn

appVars == <<tasks, store, clock, last>>
recVars == <<df_in, prev_in, returned>>
plotVars == <<df_plot, chart>>
vars == <<tasks, store, today, clock, last, df_in, prev_in, returned, df_plot, chart>>

\* ---------------------------------------------------------------- bounds
MaxDay == 2
MaxTasks == 2
MaxClock == 3
MaxRows == 2
MaxBars == 3

\* the calendar: today runs over 1..MaxDay, and a date picker offers today
\* and tomorrow
Days == 1..(MaxDay + 1)

\* ------------------------------------------------------ program constants
PRIORITY_ORDER == <<"Krytyczny", "Wysoki", "Sredni", "Niski">>

\* pd.NaT, the missing Timestamp
NaT == 0

\* ------------------------------------------------------------ input sets
\* what the user may type in a text cell or text input
NameInputs == {<<" ", "a">>, <<" ">>}
NoteInputs == {<<"n", " ">>}
\* what the user may pick in the priority selectbox
PriorityInputs == {"Wysoki", "Niski"}
\* what the user may pick in a priority multiselect
PriorityFilters == {{"Krytyczny", "Wysoki", "Sredni", "Niski"}, {"Wysoki"}, {}}
\* what the user may pick in a date input on the given day
DateInputs(day) == {day, day + 1}
\* a DateColumn cell holds a picked date or is blank
DateCells(day) == DateInputs(day) \cup {NaT}

\* ------------------------------------------------- strings and dates
iso(d) == "2024-01-0" \o ToString(d)

\* Timestamp.date().isoformat(); NaT.date() is NaT and NaT.isoformat() is
\* the string "NaT", so a blank date cell is written out as "NaT"
date_isoformat(ts) == IF ts = NaT THEN "NaT" ELSE iso(ts)

\* pd.to_datetime on a string: the Timestamp of an ISO date, NaT for "",
\* "NaT" and (errors="coerce") anything else
to_datetime(s) ==
    LET ds == {d \in Days : iso(d) = s}
    IN IF ds = {} THEN NaT ELSE CHOOSE d \in ds : TRUE

isna(ts) == ts = NaT

\* Timestamp comparison: any comparison with NaT is False
ts_lt(a, b) == ~isna(a) /\ ~isna(b) /\ a < b

RECURSIVE lstrip(_)
lstrip(s) ==
    IF s = <<>> THEN s
    ELSE IF Head(s) = " " THEN lstrip(Tail(s)) ELSE s

RECURSIVE rstrip(_)
rstrip(s) ==
    IF s = <<>> THEN s
    ELSE IF s[Len(s)] = " " THEN rstrip(SubSeq(s, 1, Len(s) - 1)) ELSE s

strip(s) == rstrip(lstrip(s))

\* ------------------------------------------------------------- Task
Task(id, name, start, plan_end, priority, notes, done, done_date) ==
    [id |-> id, name |-> name, start |-> start, plan_end |-> plan_end,
     priority |-> priority, notes |-> notes, done |-> done,
     done_date |-> done_date]

\* ------------------------------------------------------------- store
\* tasks.json: absent, unparseable, or a JSON list of objects
NoFile == [exists |-> FALSE, valid |-> FALSE, data |-> <<>>]
BadFile == [exists |-> TRUE, valid |-> FALSE, data |-> <<>>]

load_tasks(file) ==
    IF ~file.exists THEN <<>>
    ELSE IF ~file.valid THEN <<>>
    ELSE [i \in 1..Len(file.data) |->
            LET d == file.data[i] IN
            Task(d.id, d.name, d.start, d.plan_end, d.priority, d.notes,
                 d.done, d.done_date)]

\* a serialiser that leaves the completion date out
asdict_without_done_date(t) ==
    [id |-> t.id, name |-> t.name, start |-> t.start, plan_end |-> t.plan_end,
     priority |-> t.priority, notes |-> t.notes, done |-> t.done,
     done_date |-> ""]

asdict(t) ==
    [id |-> t.id, name |-> t.name, start |-> t.start, plan_end |-> t.plan_end,
     priority |-> t.priority, notes |-> t.notes, done |-> t.done,
     done_date |-> t.done_date]

save_tasks(ts) ==
    [exists |-> TRUE, valid |-> TRUE, data |-> [i \in 1..Len(ts) |-> asdict(ts[i])]]

\* TRUE when validate_dates returns its error message
validate_dates(start, plan_end) == plan_end < start

\* ------------------------------------------------------ table <-> tasks
tasks_to_df(ts) ==
    [i \in 1..Len(ts) |->
        [id |-> ts[i].id,
         Zadanie |-> ts[i].name,
         Start |-> to_datetime(ts[i].start),
         Deadline |-> to_datetime(ts[i].plan_end),
         Priorytet |-> ts[i].priority,
         Notatki |-> ts[i].notes,
         Zakonczone |-> ts[i].done,
         Data_zakonczenia |-> to_datetime(ts[i].done_date)]]

\* prev_by_id.get(task_id): the dict comprehension keeps the last task of an id
HasPrev(prev_tasks, task_id) == \E j \in 1..Len(prev_tasks) : prev_tasks[j].id = task_id

prev_by_id(prev_tasks, task_id) ==
    LET js == {j \in 1..Len(prev_tasks) : prev_tasks[j].id = task_id}
    IN prev_tasks[CHOOSE j \in js : \A k \in js : k <= j]

\* variants of the three-way rule, each with one branch changed
\* a newly done row keeps the date its cell carries
done_date_of_keeps_cell(row, prev_tasks, day) ==
    LET has == HasPrev(prev_tasks, row.id)
        prev_done == IF has THEN prev_by_id(prev_tasks, row.id).done ELSE FALSE
        prev_done_date == IF has THEN prev_by_id(prev_tasks, row.id).done_date ELSE ""
    IN IF row.Zakonczone /\ ~prev_done
       THEN (IF isna(row.Data_zakonczenia) THEN iso(day)
             ELSE date_isoformat(row.Data_zakonczenia))
       ELSE IF ~row.Zakonczone /\ prev_done THEN ""
       ELSE IF isna(row.Data_zakonczenia) THEN (IF has THEN prev_done_date ELSE "")
       ELSE date_isoformat(row.Data_zakonczenia)

\* a row that is no longer done is not cleared
done_date_of_never_clears(row, prev_tasks, day) ==
    LET has == HasPrev(prev_tasks, row.id)
        prev_done == IF has THEN prev_by_id(prev_tasks, row.id).done ELSE FALSE
        prev_done_date == IF has THEN prev_by_id(prev_tasks, row.id).done_date ELSE ""
    IN IF row.Zakonczone /\ ~prev_done THEN iso(day)
       ELSE IF isna(row.Data_zakonczenia) THEN (IF has THEN prev_done_date ELSE "")
       ELSE date_isoformat(row.Data_zakonczenia)

\* every done row is stamped, whether or not it was done before
done_date_of_restamps(row, prev_tasks, day) ==
    LET has == HasPrev(prev_tasks, row.id)
        prev_done == IF has THEN prev_by_id(prev_tasks, row.id).done ELSE FALSE
        prev_done_date == IF has THEN prev_by_id(prev_tasks, row.id).done_date ELSE ""
    IN IF row.Zakonczone THEN iso(day)
       ELSE IF prev_done THEN ""
       ELSE IF isna(row.Data_zakonczenia) THEN (IF has THEN prev_done_date ELSE "")
       ELSE date_isoformat(row.Data_zakonczenia)

\* a blank cell is written back as blank instead of carrying the old date
done_date_of_forgets(row, prev_tasks, day) ==
    LET has == HasPrev(prev_tasks, row.id)
        prev_done == IF has THEN prev_by_id(prev_tasks, row.id).done ELSE FALSE
    IN IF row.Zakonczone /\ ~prev_done THEN iso(day)
       ELSE IF ~row.Zakonczone /\ prev_done THEN ""
       ELSE IF isna(row.Data_zakonczenia) THEN ""
       ELSE date_isoformat(row.Data_zakonczenia)

\* the done_date of one row, lines 133-147
done_date_of(row, prev_tasks, day) ==
    LET has == HasPrev(prev_tasks, row.id)
        prev_done == IF has THEN prev_by_id(prev_tasks, row.id).done ELSE FALSE
        prev_done_date == IF has THEN prev_by_id(prev_tasks, row.id).done_date ELSE ""
        done_now == row.Zakonczone
        done_date_raw == row.Data_zakonczenia
    IN IF done_now /\ ~prev_done THEN iso(day)
       ELSE IF ~done_now /\ prev_done THEN ""
       ELSE IF isna(done_date_raw) THEN (IF has THEN prev_done_date ELSE "")
       ELSE date_isoformat(done_date_raw)

\* a result list that is not started afresh at each call
df_to_tasks_accumulating(df, prev_tasks, day) ==
    returned.new_tasks \o
    [i \in 1..Len(df) |->
        Task(df[i].id, strip(df[i].Zadanie), date_isoformat(df[i].Start),
             date_isoformat(df[i].Deadline), df[i].Priorytet, strip(df[i].Notatki),
             df[i].Zakonczone, done_date_of(df[i], prev_tasks, day))]

\* day is date.today() at the moment of the call
df_to_tasks(df, prev_tasks, day) ==
    [i \in 1..Len(df) |->
        Task(df[i].id,
             strip(df[i].Zadanie),
             date_isoformat(df[i].Start),
             date_isoformat(df[i].Deadline),
             df[i].Priorytet,
             strip(df[i].Notatki),
             df[i].Zakonczone,
             done_date_of(df[i], prev_tasks, day))]

\* ================================================================ the app
NotCalled == [day |-> 0, again |-> FALSE, new_tasks |-> <<>>]
NotDrawn == [drawn |-> FALSE, show_done |-> TRUE, pri_plot |-> {}, text_filter |-> <<>>,
             rows |-> <<>>]

NoOp == [op |-> "init", ok |-> TRUE, hidden |-> FALSE, edit |-> "none"]

\* the parts of the state a specification does not exercise
AppIdle == tasks = <<>> /\ store = NoFile /\ clock = 0 /\ last = NoOp
RecIdle == df_in = <<>> /\ prev_in = <<>> /\ returned = NotCalled
PlotIdle == df_plot = <<>> /\ chart = NotDrawn

Init ==
    /\ store \in {NoFile, BadFile, save_tasks(<<>>)}
    /\ tasks = load_tasks(store)
    /\ today = 1
    /\ clock = 0
    /\ last = NoOp
    /\ RecIdle
    /\ PlotIdle

\* new_id = datetime.now().strftime(...)
strftime(now) == "id" \o ToString(now)

\* the add_task form, lines 247-268
AddTask ==
    /\ clock < MaxClock
    /\ Len(tasks) < MaxTasks
    /\ clock' = clock + 1
    /\ today' = today
    /\ UNCHANGED <<recVars, plotVars>>
    /\ \E name \in NameInputs, priority \in PriorityInputs,
       deadline \in DateInputs(today), deadline_only \in BOOLEAN, notes \in NoteInputs :
      \E start_input \in IF deadline_only THEN {today} ELSE DateInputs(today) :
        LET start == IF deadline_only THEN today ELSE start_input IN
        IF strip(name) = <<>> \/ validate_dates(start, deadline)
           THEN /\ UNCHANGED <<tasks, store>>
                /\ last' = [op |-> "add", ok |-> FALSE, hidden |-> FALSE, edit |-> "none"]
           ELSE /\ tasks' = Append(tasks,
                        Task(strftime(clock), strip(name), iso(start), iso(deadline),
                             priority, strip(notes), FALSE, ""))
                /\ store' = save_tasks(tasks')
                /\ last' = [op |-> "add", ok |-> TRUE, hidden |-> FALSE, edit |-> "none"]

\* what one edit of a cell of the data editor can turn a row into; the id
\* column is disabled
RowEdits(row, day) ==
    {row}
    \cup {[row EXCEPT !.Zakonczone = ~@]}
    \cup {[row EXCEPT !.Data_zakonczenia = v] : v \in DateCells(day)}
    \cup {[row EXCEPT !.Start = v] : v \in DateCells(day)}
    \cup {[row EXCEPT !.Deadline = v] : v \in DateCells(day)}
    \cup {[row EXCEPT !.Zadanie = v] : v \in NameInputs}
    \cup {[row EXCEPT !.Priorytet = v] : v \in PriorityInputs}
    \cup {[row EXCEPT !.Notatki = v] : v \in NoteInputs}

\* which cell the editor's result differs in from the view it was given
EditedColumn(df_view, edited) ==
    IF edited = df_view THEN "none"
    ELSE LET k == CHOOSE k \in 1..Len(df_view) : edited[k] # df_view[k]
             a == df_view[k]
             b == edited[k]
         IN IF a.Zakonczone # b.Zakonczone THEN "Zakonczone"
            ELSE IF a.Data_zakonczenia # b.Data_zakonczenia
                 THEN (IF isna(b.Data_zakonczenia) THEN "blank Data_zakonczenia"
                       ELSE "Data_zakonczenia")
            ELSE IF a.Start # b.Start
                 THEN (IF isna(b.Start) THEN "blank Start" ELSE "Start")
            ELSE IF a.Deadline # b.Deadline
                 THEN (IF isna(b.Deadline) THEN "blank Deadline" ELSE "Deadline")
            ELSE IF a.Zadanie # b.Zadanie THEN "Zadanie"
            ELSE IF a.Priorytet # b.Priorytet THEN "Priorytet"
            ELSE "Notatki"

\* df[df["Priorytet"].isin(pri_filter)]
isin_filter(df, pri_filter) == SelectSeq(df, LAMBDA r : r.Priorytet \in pri_filter)

\* the edited view taken for the whole table
merge_edited_view_only(df_full, edited) == edited

\* lines 304-312: put each edited row over the row of df_full with its id
RECURSIVE merge_edited(_, _)
merge_edited(df_full, edited) ==
    IF edited = <<>> THEN df_full
    ELSE LET r == Head(edited)
             idx == {i \in 1..Len(df_full) : df_full[i].id = r.id}
             upd == IF Cardinality(idx) = 1
                    THEN [df_full EXCEPT ![CHOOSE i \in idx : TRUE] = r]
                    ELSE df_full
         IN merge_edited(upd, Tail(edited))

\* line 315: df_full[df_full["Deadline"] < df_full["Start"]] is not empty
bad_rows(df_full) == \E i \in 1..Len(df_full) : ts_lt(df_full[i].Deadline, df_full[i].Start)

\* the handler of the "Zapisz zmiany" button, lines 302-322, for the table
\* df, the view df_view of it that the editor showed and the editor's result
save_changes(df, df_view, edited) ==
    LET df_full == merge_edited(df, edited)
        hidden == Len(df_view) < Len(df)
        col == EditedColumn(df_view, edited)
    IN IF bad_rows(df_full)
       THEN /\ UNCHANGED <<tasks, store>>
            /\ last' = [op |-> "save", ok |-> FALSE, hidden |-> hidden, edit |-> col]
       ELSE /\ tasks' = df_to_tasks(df_full, tasks, today)
            /\ store' = save_tasks(tasks')
            /\ last' = [op |-> "save", ok |-> TRUE, hidden |-> hidden, edit |-> col]

\* the table, the priority filter, the data editor (the view as shown, or
\* with one row edited) and the "Zapisz zmiany" button, lines 273-322
SaveChanges ==
    /\ clock < MaxClock
    /\ tasks # <<>>
    /\ clock' = clock + 1
    /\ today' = today
    /\ UNCHANGED <<recVars, plotVars>>
    /\ \E pri_filter \in PriorityFilters :
        LET df == tasks_to_df(tasks)
            df_view == isin_filter(df, pri_filter)
        IN \E k \in 0..Len(df_view) :
            IF k = 0
            THEN save_changes(df, df_view, df_view)
            ELSE \E r \in RowEdits(df_view[k], today) :
                    save_changes(df, df_view, [df_view EXCEPT ![k] = r])

\* the "Wyczyść wszystko" button, lines 324-329
ClearAll ==
    /\ clock < MaxClock
    /\ tasks # <<>>
    /\ clock' = clock + 1
    /\ today' = today
    /\ UNCHANGED <<recVars, plotVars>>
    /\ tasks' = <<>>
    /\ store' = save_tasks(tasks')
    /\ last' = [op |-> "clear", ok |-> TRUE, hidden |-> FALSE, edit |-> "none"]

\* midnight passes
Tick ==
    /\ today < MaxDay
    /\ today' = today + 1
    /\ UNCHANGED <<appVars, recVars, plotVars>>

Next == AddTask \/ SaveChanges \/ ClearAll \/ Tick

Spec == Init /\ [][Next]_vars

\* ================================================= the reconciler alone
\* df_to_tasks called on tables and previous lists that need not come from
\* one another: rows of unknown ids, rows sharing an id, any done flag with
\* any completion-date cell.
RowIds == {"id0", "id1"}

InputRows ==
    {[id |-> i, Zadanie |-> <<"a">>, Start |-> 1, Deadline |-> 2,
      Priorytet |-> "Wysoki", Notatki |-> <<>>, Zakonczone |-> z,
      Data_zakonczenia |-> c] :
        i \in RowIds, z \in BOOLEAN, c \in DateCells(1)}

InputTasks(i) ==
    {Task(i, <<"a">>, iso(1), iso(2), "Wysoki", <<>>, z, c) :
        z \in BOOLEAN, c \in {"", iso(1)}}

\* task lists whose ids are distinct
InputPrevLists ==
    {<<>>}
    \cup UNION {{<<t>> : t \in InputTasks(i)} : i \in RowIds}
    \cup UNION {{<<t, u>> : t \in InputTasks(i), u \in InputTasks(j)} :
                    <<i, j>> \in {p \in RowIds \X RowIds : p[1] # p[2]}}

\* the tables of at most n rows
InputTables(n) == UNION {[1..k -> InputRows] : k \in 0..n}

RecInit ==
    /\ df_in \in InputTables(MaxRows)
    /\ prev_in \in InputPrevLists
    /\ returned = NotCalled
    /\ today = 1
    /\ AppIdle
    /\ PlotIdle

\* one call of df_to_tasks(df_in, prev_in); the arguments are left as they are
Reconcile ==
    /\ returned' = [day |-> today, again |-> returned.day # 0,
                    new_tasks |-> df_to_tasks(df_in, prev_in, today)]
    /\ UNCHANGED <<df_in, prev_in, today, appVars, plotVars>>

RecTick ==
    /\ today < MaxDay
    /\ today' = today + 1
    /\ UNCHANGED <<appVars, recVars, plotVars>>

RecNext == Reconcile \/ RecTick

SpecRec == RecInit /\ [][RecNext]_vars

\* ======================================================== the chart alone
lower(c) == IF c = "A" THEN "a" ELSE IF c = "B" THEN "b" ELSE c

\* Series.str.contains(pat, case=False) for a pattern of plain characters
str_contains(text, pat) ==
    \E i \in 1..(Len(text) - Len(pat) + 1) :
        \A k \in 1..Len(pat) : lower(text[i + k - 1]) = lower(pat[k])

\* lines 345-348: the priority and the name filter of the right-hand pane
plot_filter(df, pri_plot, text_filter) ==
    LET by_pri == SelectSeq(df, LAMBDA r : r.Priorytet \in pri_plot)
    IN IF strip(text_filter) # <<>>
       THEN SelectSeq(by_pri, LAMBDA r : str_contains(r.Zadanie, strip(text_filter)))
       ELSE by_pri

\* position in PRIORITY_ORDER; a value outside the categories sorts last
Priorytet_sort(p) ==
    IF \E i \in 1..Len(PRIORITY_ORDER) : PRIORITY_ORDER[i] = p
    THEN CHOOSE i \in 1..Len(PRIORITY_ORDER) : PRIORITY_ORDER[i] = p
    ELSE Len(PRIORITY_ORDER) + 1

\* "AKTYWNE" before "ZAKONCZONE"
Sekcja_sort(done) == IF done THEN 2 ELSE 1

\* a sort that ignores the section
sort_key_without_section(r) == <<1, Priorytet_sort(r.Priorytet), r.Start>>

sort_key(r) == <<Sekcja_sort(r.Zakonczone), Priorytet_sort(r.Priorytet), r.Start>>

\* ascending on each column in turn, a missing Start last
key_le(a, b) ==
    \/ a[1] < b[1]
    \/ a[1] = b[1] /\ a[2] < b[2]
    \/ a[1] = b[1] /\ a[2] = b[2] /\ (isna(b[3]) \/ (~isna(a[3]) /\ a[3] <= b[3]))

\* DataFrame.sort_values on the three columns: a stable sort
RECURSIVE insert_row(_, _)
insert_row(sorted, r) ==
    IF sorted = <<>> THEN <<r>>
    ELSE IF key_le(sort_key(Head(sorted)), sort_key(r))
         THEN <<Head(sorted)>> \o insert_row(Tail(sorted), r)
         ELSE <<r>> \o sorted

RECURSIVE sort_values(_)
sort_values(df) ==
    IF df = <<>> THEN <<>>
    ELSE insert_row(sort_values(SubSeq(df, 1, Len(df) - 1)), df[Len(df)])

\* the rows of the figure, top to bottom, lines 163-188
make_gantt(df, show_done) ==
    LET shown == IF show_done THEN df ELSE SelectSeq(df, LAMBDA r : ~r.Zakonczone)
        sorted == sort_values(shown)
    IN [i \in 1..Len(sorted) |->
            LET r == sorted[i] IN
            [id |-> r.id,
             Y |-> <<Sekcja_sort(r.Zakonczone), r.Zadanie>>,
             Start |-> r.Start,
             Koniec |-> IF r.Zakonczone /\ ~isna(r.Data_zakonczenia)
                        THEN r.Data_zakonczenia ELSE r.Deadline,
             Priorytet |-> r.Priorytet,
             Zakonczone |-> r.Zakonczone]]

PlotNames(i) == IF i % 2 = 1 THEN <<"A", "b">> ELSE <<"c">>
TextFilters == {<<>>, <<" ", "a">>}
PlotFilters == {{"Krytyczny", "Wysoki", "Sredni", "Niski"}, {"Krytyczny", "Niski"}}

PriorityValues == {PRIORITY_ORDER[i] : i \in 1..Len(PRIORITY_ORDER)}

\* the i-th task of a persisted list: any priority, done or not; the tasks
\* at odd positions start a day after those at even positions, so that
\* later, earlier and equal starts all meet
PlotTasks(i) ==
    {Task(strftime(i), PlotNames(i), iso(1 + (i % 2)), iso(2), p, <<>>, z,
          IF z THEN iso(1) ELSE "") :
        p \in PriorityValues, z \in BOOLEAN}

\* the lists of at most n such tasks
RECURSIVE PlotLists(_)
PlotLists(n) ==
    IF n = 0 THEN {<<>>}
    ELSE LET shorter == PlotLists(n - 1)
         IN shorter \cup {Append(l, t) : l \in {x \in shorter : Len(x) = n - 1},
                                        t \in PlotTasks(n)}

PlotInit ==
    /\ df_plot \in PlotLists(MaxBars)
    /\ chart = NotDrawn
    /\ today = 1
    /\ AppIdle
    /\ RecIdle

\* the right-hand pane, lines 332-350
DrawChart ==
    \E show_done \in BOOLEAN, pri_plot \in PlotFilters, text_filter \in TextFilters :
        /\ chart' = [drawn |-> TRUE, show_done |-> show_done, pri_plot |-> pri_plot,
                     text_filter |-> text_filter,
                     rows |-> make_gantt(
                         plot_filter(tasks_to_df(df_plot), pri_plot, text_filter),
                         show_done)]
        /\ UNCHANGED <<df_plot, today, appVars, recVars>>

PlotNext == DrawChart

SpecPlot == PlotInit /\ [][PlotNext]_vars

\* ================================================================ claims
\* the task of the previous list with the row's id is done
PreviouslyDone(id) == \E j \in 1..Len(prev_in) : prev_in[j].id = id /\ prev_in[j].done

\* the done_date of the task of the previous list with the row's id, empty
\* when there is none
PreviousDoneDate(id) ==
    IF \E j \in 1..Len(prev_in) : prev_in[j].id = id
    THEN prev_in[CHOOSE j \in 1..Len(prev_in) : prev_in[j].id = id].done_date
    ELSE ""

Called == returned.day # 0
Emitted(i) == returned.new_tasks[i]

\* C1: a row that is done while its previous record (none counts as not
\* done) is not done is emitted with done_date = the day of the call,
\* whatever its completion-date cell holds.
C1_TransitionToDoneStampsToday ==
    Called =>
        \A i \in 1..Len(df_in) :
            (df_in[i].Zakonczone /\ ~PreviouslyDone(df_in[i].id)) =>
                /\ i \in DOMAIN returned.new_tasks
                /\ Emitted(i).done_date = iso(returned.day)

\* a newly done row whose cell carries another day than the day of the call
C1_Witness ==
    /\ Called
    /\ \E i \in 1..Len(df_in) :
        /\ df_in[i].Zakonczone
        /\ ~PreviouslyDone(df_in[i].id)
        /\ ~isna(df_in[i].Data_zakonczenia)
        /\ df_in[i].Data_zakonczenia # returned.day
        /\ Emitted(i).done_date = iso(returned.day)

\* C2: a row that is not done while its previous record is done is emitted
\* with an empty done_date, whatever its cell and the previous done_date.
C2_TransitionToNotDoneClears ==
    Called =>
        \A i \in 1..Len(df_in) :
            (~df_in[i].Zakonczone /\ PreviouslyDone(df_in[i].id)) =>
                /\ i \in DOMAIN returned.new_tasks
                /\ Emitted(i).done_date = ""

\* an unticked row of a done task with a stamp, its cell still holding a date
C2_Witness ==
    /\ Called
    /\ \E i \in 1..Len(df_in) :
        /\ ~df_in[i].Zakonczone
        /\ PreviouslyDone(df_in[i].id)
        /\ PreviousDoneDate(df_in[i].id) # ""
        /\ ~isna(df_in[i].Data_zakonczenia)
        /\ Emitted(i).done_date = ""

\* C3: a row whose done flag equals its previous record's is emitted with the
\* previous done_date when its cell is blank and with the cell's date
\* otherwise; a table built from the previous list and not edited gets every
\* done_date back.
C3_NoTransitionKeepsOrTakesCell ==
    Called =>
        /\ \A i \in 1..Len(df_in) :
            (df_in[i].Zakonczone = PreviouslyDone(df_in[i].id)) =>
                /\ i \in DOMAIN returned.new_tasks
                /\ Emitted(i).done_date =
                        IF isna(df_in[i].Data_zakonczenia)
                        THEN PreviousDoneDate(df_in[i].id)
                        ELSE iso(df_in[i].Data_zakonczenia)
        /\ df_in = tasks_to_df(prev_in) =>
                /\ Len(returned.new_tasks) = Len(prev_in)
                /\ \A i \in 1..Len(prev_in) : Emitted(i).done_date = prev_in[i].done_date

\* an unedited two-row table with a task done on an earlier day, reconciled
\* on a later day
C3_Witness ==
    /\ Called
    /\ Len(prev_in) = 2
    /\ df_in = tasks_to_df(prev_in)
    /\ \E i \in 1..2 :
        /\ prev_in[i].done
        /\ prev_in[i].done_date = iso(1)
        /\ Emitted(i).done_date = iso(1)
    /\ returned.day = 2

Ids(ts) == [i \in 1..Len(ts) |-> ts[i].id]

\* the calendar dates a and b, written as ISO strings, satisfy a >= b
DateGe(a, b) ==
    /\ ~isna(to_datetime(a))
    /\ ~isna(to_datetime(b))
    /\ to_datetime(a) >= to_datetime(b)

\* C4: every task of the session and of the store has plan_end >= start.
C4_DeadlineNotBeforeStart ==
    /\ \A i \in 1..Len(tasks) : DateGe(tasks[i].plan_end, tasks[i].start)
    /\ \A i \in 1..Len(load_tasks(store)) :
            DateGe(load_tasks(store)[i].plan_end, load_tasks(store)[i].start)

\* C6: the store, read back, is the session's task list.
C6_StoreMirrorsSession == load_tasks(store) = tasks

\* an accepted save that left a stamped task, and the file written by it
C6_Witness ==
    /\ last.op = "save"
    /\ last.ok
    /\ store.exists /\ store.valid
    /\ \E i \in 1..Len(tasks) : tasks[i].done /\ tasks[i].done_date # ""

\* C7: an accepted save returns one task per task of the session, with the
\* same ids in the same order; an add appends one id; only "clear" drops any.
C7_SaveKeepsIdsInOrder ==
    [][/\ (last'.op = "save" /\ last'.ok /\ clock' # clock) => Ids(tasks') = Ids(tasks)
       /\ (last'.op = "save" /\ ~last'.ok /\ clock' # clock) => tasks' = tasks
       /\ (last'.op = "add" /\ clock' # clock) =>
                \/ tasks' = tasks
                \/ /\ Len(tasks') = Len(tasks) + 1
                   /\ SubSeq(Ids(tasks'), 1, Len(tasks)) = Ids(tasks)
       /\ (tasks' # tasks /\ Len(tasks') < Len(tasks)) => last'.op = "clear"]_vars

\* an accepted save of an edit made while the filter hid one of two tasks
C7_Witness ==
    /\ last.op = "save"
    /\ last.ok
    /\ last.hidden
    /\ last.edit # "none"
    /\ Len(tasks) = 2

\* C8: no task of the session has an empty name.
C8_NamesNotEmpty == \A i \in 1..Len(tasks) : tasks[i].name # <<>>

\* C10: every done task of the session has a done_date.
C10_DoneHasDoneDate == \A i \in 1..Len(tasks) : tasks[i].done => tasks[i].done_date # ""

\* an accepted save that blanked the completion-date cell of the only task,
\* which is done
C10_Witness ==
    /\ last.op = "save"
    /\ last.ok
    /\ last.edit = "blank Data_zakonczenia"
    /\ Len(tasks) = 1
    /\ tasks[1].done
    /\ tasks[1].done_date # ""

\* the task behind a bar passes the filters the chart was drawn with
Passes(t) ==
    /\ t.priority \in chart.pri_plot
    /\ chart.show_done \/ ~t.done
    /\ strip(chart.text_filter) = <<>> \/ str_contains(t.name, strip(chart.text_filter))

Rank(p) == CHOOSE i \in 1..4 : <<"Krytyczny", "Wysoki", "Sredni", "Niski">>[i] = p

\* C9: the bars are the tasks that pass the filters, each once; not-done bars
\* come before done bars, within a section Krytyczny before Wysoki before
\* Sredni before Niski, and within a priority earlier starts first.
C9_BarsOrdered ==
    chart.drawn =>
        LET rows == chart.rows IN
        /\ \A i, j \in 1..Len(rows) : i < j =>
            /\ rows[i].id # rows[j].id
            /\ rows[i].Zakonczone => rows[j].Zakonczone
            /\ rows[i].Zakonczone = rows[j].Zakonczone =>
                    Rank(rows[i].Priorytet) <= Rank(rows[j].Priorytet)
            /\ (/\ rows[i].Zakonczone = rows[j].Zakonczone
                /\ rows[i].Priorytet = rows[j].Priorytet) =>
                    rows[i].Start <= rows[j].Start
        /\ {rows[i].id : i \in 1..Len(rows)} =
                {df_plot[k].id : k \in {k \in 1..Len(df_plot) : Passes(df_plot[k])}}

\* three bars drawn in another order than the list's, a done one among them
C9_Witness ==
    /\ chart.drawn
    /\ Len(chart.rows) = 3
    /\ Ids(chart.rows) # Ids(df_plot)
    /\ \E i, j \in 1..3 : ~chart.rows[i].Zakonczone /\ chart.rows[j].Zakonczone
    /\ \E i, j \in 1..3 :
            /\ i < j
            /\ chart.rows[i].Priorytet = chart.rows[j].Priorytet
            /\ chart.rows[i].Zakonczone = chart.rows[j].Zakonczone
            /\ chart.rows[i].Start < chart.rows[j].Start
====
